---- MODULE Spec2Model ----
(***************************************************************************)
(* Run detection of the FPV video analyser: StaticDetector                 *)
(* (src/src/analysis/static.py) and Aggregator.detect_highlights           *)
(* (src/src/analysis/aggregation.py).                                      *)
(*                                                                         *)
(* Units.  Timestamps and durations are whole seconds.  Dissimilarity      *)
(* scores and the static threshold are counted in hundredths (0.02 is 2).  *)
(* A confidence is the exact fraction num/den.                             *)
(* Sequences are 1-based here and 0-based in the source: At(s, k) is the   *)
(* source's s[k], and the loop counter i keeps the source's values.        *)
(***************************************************************************)
EXTENDS Integers, Sequences, FiniteSets, TLC

VARIABLES
    op,                         \* the entry point this behaviour calls
    pc,                         \* position inside that call
    frames,                     \* detect_static_segments: the frame list
    frame_diffs,                \* the dissimilarity of each adjacent frame pair
    video_duration,
    threshold,                  \* StaticDetector.threshold
    min_duration,               \* StaticDetector.min_duration
    i,                          \* loop counter of the running scan
    in_static,
    static_start,
    segments,
    frame_analyses,             \* detect_highlights: the record list
    highlight_score_threshold,  \* Aggregator.highlight_score_threshold
    highlight_min_duration,     \* Aggregator.highlight_min_duration
    in_highlight,
    highlight_start,
    highlight_frames,
    highlights,
    tag_threshold,              \* Aggregator.tag_threshold, in hundredths
    tags,                       \* what extract_tags returned, None before
    quality,                    \* what assess_quality returned, None before
    tag_counter,                \* extract_tags: its Counter
    previous,                   \* stage 5: what each method returned last
    calls,                      \* stage 5: how many calls were made
    args,                       \* the arguments given to the constructors
    failed,                     \* _analyze_frames: the frames the classifier failed on
    ppc,                        \* analyze_video: position of each request
    force,                      \* analyze_video: force flag of each request
    temp_dir,                   \* analyze_video: temp directory of each request
    ran,                        \* analyze_video: the stages each request completed
    sidecar                     \* the sidecar file: None when absent

vars == <<op, pc, frames, frame_diffs, video_duration, threshold, min_duration,
          i, in_static, static_start, segments, frame_analyses,
          highlight_score_threshold, highlight_min_duration, in_highlight,
          highlight_start, highlight_frames, highlights, tag_threshold, tags,
          quality, tag_counter, previous, calls, args, failed, ppc, force,
          temp_dir, ran, sidecar>>

static_vars == <<frames, frame_diffs, video_duration, threshold, min_duration,
                 in_static, static_start, segments>>

highlight_vars == <<frame_analyses, highlight_score_threshold,
                    highlight_min_duration, in_highlight, highlight_start,
                    highlight_frames, highlights>>

aggregate_vars == <<tag_threshold, tags, quality, tag_counter>>

pipeline_vars == <<previous, calls, args, failed, ppc, force, temp_dir, ran, sidecar>>

(***************************************************************************)
(* Bounds of the model.                                                    *)
(***************************************************************************)
MaxFrames == 5
MaxRecords == 5

(***************************************************************************)
(* Program constants.                                                      *)
(***************************************************************************)
static_threshold == 2            \* settings.static_threshold = 0.02
min_static_duration == 1         \* settings.min_static_duration = 1.0
settings_highlight_score_threshold == 7
settings_highlight_min_duration == 5
PositionWindow == 30             \* the 30 seconds of classify_static
TailConfidenceNum == 9           \* confidence=0.9 of a run the series ends in
TailConfidenceDen == 10
tag_frequency_threshold == 20    \* settings.tag_frequency_threshold = 0.2
TopTags == 5                     \* tag_counter.most_common(5)

\* An optional argument: None when absent, Some(v) when given.
None == <<>>
Some(v) == <<v>>

\* Stage 5 has made no call.
IdleStage ==
    /\ previous = <<>>
    /\ calls = 0

\* No constructor argument is on record.
IdleArgs == args = <<>>

\* No frame is being classified.
IdleAnalysis == failed = {}

\* No request is being analysed.
IdleRequests ==
    /\ ppc = <<>>
    /\ force = <<>>
    /\ temp_dir = <<>>
    /\ ran = <<>>
    /\ sidecar = None

IdlePipeline == IdleStage /\ IdleArgs /\ IdleAnalysis /\ IdleRequests

(***************************************************************************)
(* Input domains.                                                          *)
(***************************************************************************)
\* Frame timestamps lie on both sides of the 30 s mark.
FrameTimes == {0, 1, 29, 30, 31, 32}
\* Below, at and above either threshold in use.
DiffValues == {0, 1, 2, 3}
VideoDurations == {60, 62, 120}
ThresholdArgs == {None, Some(0), Some(3)}
MinDurationArgs == {None, Some(0), Some(3)}
RecordTimes == {0, 2, 5}
ScoreValues == {5, 7, 8}
ScoreThresholdArgs == {None, Some(0), Some(8)}
HighlightMinDurationArgs == {None, Some(0), Some(2)}

\* settings.highlight_min_duration: Settings reads it from the environment
\* (HIGHLIGHT_MIN_DURATION); 0 switches the floor off.
HighlightMinDurationSettings == {settings_highlight_min_duration, 0}

At(s, k) == s[k + 1]

Max(a, b) == IF a >= b THEN a ELSE b
Min(a, b) == IF a <= b THEN a ELSE b

\* Variant: only None is replaced by the default.
OrDefault_NoneOnly(arg, default) == IF arg = None THEN default ELSE arg[1]

\* Python's `arg or default`: None and 0 are both falsy.
OrDefault(arg, default) ==
    IF arg = None THEN default ELSE IF arg[1] = 0 THEN default ELSE arg[1]

StrictlyIncreasing(ts) == \A k \in 1..(Len(ts) - 1) : ts[k] < ts[k + 1]
NonDecreasing(ts) == \A k \in 1..(Len(ts) - 1) : ts[k] <= ts[k + 1]

SeqsUpTo(S, n) == UNION {[1..k -> S] : k \in 0..n}

\* The frame extractor stamps frame k with frame_count / fps, frame_count
\* growing from one kept frame to the next.
FrameLists ==
    {[k \in 1..Len(ts) |-> [timestamp |-> ts[k]]] :
        ts \in {t \in SeqsUpTo(FrameTimes, MaxFrames) : StrictlyIncreasing(t)}}

\* A record is a FrameAnalysis.  The description names the record's
\* position, so that records differ.
FrameAnalysis(timestamp, description, environment, flight_style, interest_score, quality_issues) ==
    [timestamp |-> timestamp, description |-> description,
     environment |-> environment, flight_style |-> flight_style,
     interest_score |-> interest_score, quality_issues |-> quality_issues]

\* Record lists of the run-detection calls: timestamps and scores vary, the
\* tag and issue fields are the schema's defaults.
RecordLists ==
    {[k \in 1..Len(ts) |-> FrameAnalysis(ts[k], k, <<>>, "", sc[k], <<>>)] :
        <<ts, sc>> \in
            {p \in SeqsUpTo(RecordTimes, MaxRecords) \X SeqsUpTo(ScoreValues, MaxRecords) :
                Len(p[1]) = Len(p[2]) /\ NonDecreasing(p[1])}}

(***************************************************************************)
(* StaticDetector                                                          *)
(***************************************************************************)
\* compute_frame_difference(frames[a], frames[b]) for the adjacent pair
\* b = a + 1: the SSIM dissimilarity, an input of the scan.
compute_frame_difference(a, b) == frame_diffs[b]

\* Variant: the last-30-seconds test comes first.
classify_static_PostLandFirst(start, end, vd) ==
    IF end > vd - PositionWindow THEN "POST_LAND"
    ELSE IF start < PositionWindow THEN "PRE_ARM"
    ELSE "DVR_FREEZE"

classify_static(start, end, vd) ==
    IF start < PositionWindow THEN "PRE_ARM"
    ELSE IF end > vd - PositionWindow THEN "POST_LAND"
    ELSE "DVR_FREEZE"

\* diff < self.threshold
IsStaticDiff(diff) == diff < threshold

\* Variant: the run is anchored at the current frame, as detect_highlights does.
StaticRunStart_Current(k) == At(frames, k).timestamp

\* static_start = frames[i - 1].timestamp
StaticRunStart(k) == At(frames, k - 1).timestamp

\* Variant: an exit closes the run at frames[-1], as the code after the loop does.
StaticExitEnd_LastFrame(k) == frames[Len(frames)].timestamp

\* static_end = frames[i].timestamp
StaticExitEnd(k) == At(frames, k).timestamp

\* Variant: a run the series ends in is closed at the end of the video.
StaticTailEnd_VideoEnd == video_duration

\* static_end = frames[-1].timestamp
StaticTailEnd == frames[Len(frames)].timestamp

\* Variant: any run of positive length is kept.
StaticDurationOk_Positive(start, end) == end - start > 0

\* duration >= self.min_duration
StaticDurationOk(start, end) == end - start >= min_duration

\* Variant: 1.0 - diff / self.threshold without the clamp.
ExitConfidence_Unclamped(diff) == [num |-> threshold - diff, den |-> threshold]

\* confidence = max(0.0, min(1.0, 1.0 - diff / self.threshold)), as the
\* fraction (threshold - diff) / threshold clamped to [0, threshold] / threshold
ExitConfidence(diff) ==
    [num |-> Max(0, Min(threshold, threshold - diff)), den |-> threshold]

TailConfidence == [num |-> TailConfidenceNum, den |-> TailConfidenceDen]

StaticSegment(start, end, reason, confidence) ==
    [start |-> start, end |-> end, reason |-> reason, confidence |-> confidence]

InitStatic ==
    /\ op = "detect_static_segments"
    /\ pc = "static_entry"
    /\ frames \in FrameLists
    /\ frame_diffs \in [1..(Len(frames) - 1) -> DiffValues]
    /\ video_duration \in VideoDurations
    /\ \E a \in ThresholdArgs : threshold = OrDefault(a, static_threshold)
    /\ \E a \in MinDurationArgs : min_duration = OrDefault(a, min_static_duration)
    /\ i = 0
    /\ in_static = FALSE
    /\ static_start = 0
    /\ segments = <<>>
    /\ frame_analyses = <<>>
    /\ highlight_score_threshold = settings_highlight_score_threshold
    /\ highlight_min_duration = settings_highlight_min_duration
    /\ in_highlight = FALSE
    /\ highlight_start = 0
    /\ highlight_frames = <<>>
    /\ highlights = <<>>
    /\ tag_threshold = tag_frequency_threshold
    /\ tags = None
    /\ quality = None
    /\ tag_counter = <<>>
    /\ IdlePipeline

\* if len(frames) < 2: return []
StaticTooFew ==
    /\ pc = "static_entry"
    /\ Len(frames) < 2
    /\ pc' = "done"
    /\ UNCHANGED <<pipeline_vars, op, i, static_vars, highlight_vars, aggregate_vars>>

\* segments = []; in_static = False; static_start = 0.0; for i in range(1, ...)
StaticBegin ==
    /\ pc = "static_entry"
    /\ Len(frames) >= 2
    /\ segments' = <<>>
    /\ in_static' = FALSE
    /\ static_start' = 0
    /\ i' = 1
    /\ pc' = "static_loop"
    /\ UNCHANGED <<pipeline_vars, op, frames, frame_diffs, video_duration, threshold,
                   min_duration, highlight_vars, aggregate_vars>>

\* One pass of the body of `for i in range(1, len(frames))`.
StaticLoopBody ==
    /\ pc = "static_loop"
    /\ i < Len(frames)
    /\ LET diff == compute_frame_difference(i - 1, i) IN
        IF IsStaticDiff(diff)
        THEN /\ in_static' = TRUE
             /\ static_start' = IF in_static THEN static_start ELSE StaticRunStart(i)
             /\ segments' = segments
        ELSE /\ in_static' = FALSE
             /\ static_start' = static_start
             /\ segments' =
                  IF in_static /\ StaticDurationOk(static_start, StaticExitEnd(i))
                  THEN Append(segments,
                          StaticSegment(static_start, StaticExitEnd(i),
                              classify_static(static_start, StaticExitEnd(i), video_duration),
                              ExitConfidence(diff)))
                  ELSE segments
    /\ i' = i + 1
    /\ UNCHANGED <<pipeline_vars, op, pc, frames, frame_diffs, video_duration, threshold,
                   min_duration, highlight_vars, aggregate_vars>>

\* After the loop: `if in_static:` closes the run at frames[-1]; return.
StaticAfterLoop ==
    /\ pc = "static_loop"
    /\ i >= Len(frames)
    /\ segments' =
          IF in_static /\ StaticDurationOk(static_start, StaticTailEnd)
          THEN Append(segments,
                  StaticSegment(static_start, StaticTailEnd,
                      classify_static(static_start, StaticTailEnd, video_duration),
                      TailConfidence))
          ELSE segments
    /\ pc' = "done"
    /\ UNCHANGED <<pipeline_vars, op, i, frames, frame_diffs, video_duration, threshold,
                   min_duration, in_static, static_start, highlight_vars,
                   aggregate_vars>>

StaticNext == StaticTooFew \/ StaticBegin \/ StaticLoopBody \/ StaticAfterLoop

(***************************************************************************)
(* Aggregator.detect_highlights                                            *)
(***************************************************************************)
RECURSIVE SumScores(_)
SumScores(fs) ==
    IF fs = <<>> THEN 0 ELSE fs[1].interest_score + SumScores(Tail(fs))

\* Variant: the mean is rounded to the nearest integer, halves upwards.
AvgScore_Rounded(fs) == (2 * SumScores(fs) + Len(fs)) \div (2 * Len(fs))

\* avg_score = sum(f.interest_score for f in frames) // len(frames)
AvgScore(fs) == SumScores(fs) \div Len(fs)

\* Variant: the last of the maxima.
BestFrame_Last(fs) ==
    LET top == CHOOSE m \in {fs[k].interest_score : k \in 1..Len(fs)} :
                   \A k \in 1..Len(fs) : fs[k].interest_score <= m
        last == CHOOSE k \in 1..Len(fs) :
                   /\ fs[k].interest_score = top
                   /\ \A j \in (k + 1)..Len(fs) : fs[j].interest_score # top
    IN fs[last]

\* max(frames, key=lambda f: f.interest_score): the first of the maxima
BestFrame(fs) ==
    LET top == CHOOSE m \in {fs[k].interest_score : k \in 1..Len(fs)} :
                   \A k \in 1..Len(fs) : fs[k].interest_score <= m
        first == CHOOSE k \in 1..Len(fs) :
                   /\ fs[k].interest_score = top
                   /\ \A j \in 1..(k - 1) : fs[j].interest_score # top
    IN fs[first]

RECURSIVE Repeat(_, _)
Repeat(x, n) == IF n = 0 THEN <<>> ELSE <<x>> \o Repeat(x, n - 1)

RECURSIVE Flatten(_)
Flatten(ss) == IF ss = <<>> THEN <<>> ELSE Head(ss) \o Flatten(Tail(ss))

\* collections.Counter after counter[key] += 1 for every key of keys in
\* turn: one entry per distinct key, in the order of first insertion, with
\* the number of its occurrences.
Counter(keys) ==
    LET firsts == SelectSeq([k \in 1..Len(keys) |-> k],
                            LAMBDA k : \A j \in 1..(k - 1) : keys[j] # keys[k])
    IN [n \in 1..Len(firsts) |->
          [key |-> keys[firsts[n]],
           count |-> Cardinality({j \in 1..Len(keys) : keys[j] = keys[firsts[n]]})]]

\* Variant: every flight style that is not empty is counted.
CountsFlightStyle_Any(style) == style # ""

\* fa.flight_style and fa.flight_style not in ["unknown", "stationary"]
CountsFlightStyle(style) == style # "" /\ style \notin {"unknown", "stationary"}

\* What one record adds to the tally: its environment tags, then its flight
\* style if that counts.
TagKeys(fa) ==
    fa.environment \o
        (IF CountsFlightStyle(fa.flight_style) THEN <<fa.flight_style>> ELSE <<>>)

\* for fa in frame_analyses: the keys in the order the loop counts them.
RECURSIVE AllTagKeys(_)
AllTagKeys(fs) ==
    IF fs = <<>> THEN <<>> ELSE TagKeys(Head(fs)) \o AllTagKeys(Tail(fs))

\* The keys a counter has counted, entry by entry.
Replay(c) == Flatten([k \in 1..Len(c) |-> Repeat(c[k].key, c[k].count)])

\* counter[key] += 1 for every key of keys, on a counter that holds c.
CounterUpdate(c, keys) == Counter(Replay(c) \o keys)

\* Variant: the counter is kept from one call to the next.
NewCounter_Kept(old) == old

\* tag_counter = Counter(): a new, empty counter, whatever the name held.
NewCounter(old) == <<>>

TagCounter(c, fs) == CounterUpdate(c, AllTagKeys(fs))

\* Variant: an entry goes before the entries of equal count.
InsertByCount_BeforeEqual(sorted, e) ==
    LET before == SelectSeq(sorted, LAMBDA x : x.count > e.count)
        after == SelectSeq(sorted, LAMBDA x : x.count <= e.count)
    IN before \o <<e>> \o after

\* One step of a stable sort by descending count: the entry goes behind the
\* entries of equal count that came before it.
InsertByCount(sorted, e) ==
    LET before == SelectSeq(sorted, LAMBDA x : x.count >= e.count)
        after == SelectSeq(sorted, LAMBDA x : x.count < e.count)
    IN before \o <<e>> \o after

RECURSIVE SortByCount(_, _)
SortByCount(sorted, c) ==
    IF c = <<>> THEN sorted ELSE SortByCount(InsertByCount(sorted, Head(c)), Tail(c))

Keys(c) == [k \in 1..Len(c) |-> c[k].key]

\* Variant: the cut keeps one tag more.
Prefix_OneMore(s, n) == SubSeq(s, 1, Min(n + 1, Len(s)))

\* s[:n]
Prefix(s, n) == SubSeq(s, 1, Min(n, Len(s)))

\* [tag for tag, _ in tag_counter.most_common(5)]
HighlightTags(fs) == Prefix(Keys(SortByCount(<<>>, TagCounter(<<>>, fs))), TopTags)

\* _create_highlight(start, end, frames)
CreateHighlight(start, end, fs) ==
    [start |-> start, end |-> end, score |-> AvgScore(fs),
     description |-> BestFrame(fs).description, tags |-> HighlightTags(fs)]

\* Variant: a score one below the threshold passes too.
IsHighlightScore_Lenient(score) == score >= highlight_score_threshold - 1

\* Variant: a score equal to the threshold does not pass.
IsHighlightScore_Strict(score) == score > highlight_score_threshold

\* fa.interest_score >= self.highlight_score_threshold
IsHighlightScore(score) == score >= highlight_score_threshold

\* highlight_start = fa.timestamp
HighlightRunStart(k) == At(frame_analyses, k).timestamp

\* Variant: an exit closes the run at the record that failed the threshold.
HighlightExitEnd_ExitRecord(k) == At(frame_analyses, k).timestamp

\* Variant: an exit closes the run at frame_analyses[-1], as the code after
\* the loop does.
HighlightExitEnd_LastRecord(k) == frame_analyses[Len(frame_analyses)].timestamp

\* highlight_end = frame_analyses[i - 1].timestamp
HighlightExitEnd(k) == At(frame_analyses, k - 1).timestamp

\* highlight_end = frame_analyses[-1].timestamp
HighlightTailEnd == frame_analyses[Len(frame_analyses)].timestamp

\* duration >= self.highlight_min_duration
HighlightDurationOk(start, end) == end - start >= highlight_min_duration

InitHighlights ==
    /\ op = "detect_highlights"
    /\ pc = "highlights_entry"
    /\ frame_analyses \in RecordLists
    /\ \E a \in ScoreThresholdArgs :
          highlight_score_threshold = OrDefault(a, settings_highlight_score_threshold)
    /\ \E a \in HighlightMinDurationArgs, d \in HighlightMinDurationSettings :
          highlight_min_duration = OrDefault(a, d)
    /\ i = 0
    /\ in_highlight = FALSE
    /\ highlight_start = 0
    /\ highlight_frames = <<>>
    /\ highlights = <<>>
    /\ frames = <<>>
    /\ frame_diffs = <<>>
    /\ video_duration = 0
    /\ threshold = static_threshold
    /\ min_duration = min_static_duration
    /\ in_static = FALSE
    /\ static_start = 0
    /\ segments = <<>>
    /\ tag_threshold = tag_frequency_threshold
    /\ tags = None
    /\ quality = None
    /\ tag_counter = <<>>
    /\ IdlePipeline

\* if not frame_analyses: return []
HighlightsEmpty ==
    /\ pc = "highlights_entry"
    /\ frame_analyses = <<>>
    /\ pc' = "done"
    /\ UNCHANGED <<pipeline_vars, op, i, static_vars, highlight_vars, aggregate_vars>>

\* highlights = []; in_highlight = False; highlight_start = 0.0;
\* highlight_frames = []; for i, fa in enumerate(frame_analyses)
HighlightsBegin ==
    /\ pc = "highlights_entry"
    /\ frame_analyses # <<>>
    /\ highlights' = <<>>
    /\ in_highlight' = FALSE
    /\ highlight_start' = 0
    /\ highlight_frames' = <<>>
    /\ i' = 0
    /\ pc' = "highlights_loop"
    /\ UNCHANGED <<pipeline_vars, op, frame_analyses, highlight_score_threshold,
                   highlight_min_duration, static_vars, aggregate_vars>>

\* One pass of the body of `for i, fa in enumerate(frame_analyses)`.
HighlightsLoopBody ==
    /\ pc = "highlights_loop"
    /\ i < Len(frame_analyses)
    /\ LET fa == At(frame_analyses, i) IN
        IF IsHighlightScore(fa.interest_score)
        THEN /\ in_highlight' = TRUE
             /\ highlight_start' =
                  IF in_highlight THEN highlight_start ELSE HighlightRunStart(i)
             /\ highlight_frames' =
                  IF in_highlight THEN Append(highlight_frames, fa) ELSE <<fa>>
             /\ highlights' = highlights
        ELSE /\ in_highlight' = FALSE
             /\ highlight_start' = highlight_start
             /\ highlight_frames' = IF in_highlight THEN <<>> ELSE highlight_frames
             /\ highlights' =
                  IF in_highlight /\ HighlightDurationOk(highlight_start, HighlightExitEnd(i))
                  THEN Append(highlights,
                          CreateHighlight(highlight_start, HighlightExitEnd(i),
                                          highlight_frames))
                  ELSE highlights
    /\ i' = i + 1
    /\ UNCHANGED <<pipeline_vars, op, pc, frame_analyses, highlight_score_threshold,
                   highlight_min_duration, static_vars, aggregate_vars>>

\* After the loop: `if in_highlight:` closes the run at frame_analyses[-1].
HighlightsAfterLoop ==
    /\ pc = "highlights_loop"
    /\ i >= Len(frame_analyses)
    /\ highlights' =
          IF in_highlight /\ HighlightDurationOk(highlight_start, HighlightTailEnd)
          THEN Append(highlights,
                  CreateHighlight(highlight_start, HighlightTailEnd, highlight_frames))
          ELSE highlights
    /\ pc' = "done"
    /\ UNCHANGED <<pipeline_vars, op, i, frame_analyses, highlight_score_threshold,
                   highlight_min_duration, in_highlight, highlight_start,
                   highlight_frames, static_vars, aggregate_vars>>

HighlightsNext ==
    HighlightsEmpty \/ HighlightsBegin \/ HighlightsLoopBody \/ HighlightsAfterLoop

(***************************************************************************)
(* One behaviour is one call of one of the two entry points.               *)
(***************************************************************************)
\* ---------------------------------------------------------------------
\* Aggregator.extract_tags
\* ---------------------------------------------------------------------

MaxTagBlocks == 3

\* How often a block repeats its record.
TagReps == {1, 2, 4}

\* Aggregator(tag_threshold=...), in hundredths.
TagThresholdArgs == {None, Some(0), Some(50)}

\* (environment, flight_style) of the records of a tag call.  The classifier
\* answers with free text, so a placeholder can come back as an environment tag.
TagKinds ==
    {<<<<"forest", "water">>, "freestyle">>,
     <<<<"water", "forest">>, "cinematic">>,
     <<<<"water">>, "unknown">>,
     <<<<>>, "stationary">>,
     <<<<"unknown", "forest">>, "">>,
     <<<<"stationary">>, "freestyle">>}

\* Lists of at most n blocks, a block being one kind repeated.
BlockLists(kinds, reps, n) ==
    {Flatten([b \in 1..Len(bs) |-> Repeat(bs[b][1], bs[b][2])]) :
        bs \in SeqsUpTo(kinds \X reps, n)}

\* One record per second, every field but the tag fields the same.
TagRecordLists ==
    {[k \in 1..Len(ks) |-> FrameAnalysis(k - 1, k, ks[k][1], ks[k][2], 5, <<>>)] :
        ks \in BlockLists(TagKinds, TagReps, MaxTagBlocks)}

\* int(total_frames * self.tag_threshold)
ThresholdCount(n, fraction) == (n * fraction) \div 100

\* tags = [tag for tag, count in tag_counter.items() if count >= threshold_count]
\* tags.sort(key=lambda t: tag_counter[t], reverse=True)
FrequentTags(counter, n, fraction) ==
    LET threshold_count == ThresholdCount(n, fraction)
        kept == SelectSeq(counter, LAMBDA e : e.count >= threshold_count)
    IN Keys(SortByCount(<<>>, kept))

\* What no call of this behaviour touches.
IdleStatic ==
    /\ frames = <<>>
    /\ frame_diffs = <<>>
    /\ video_duration = 0
    /\ threshold = static_threshold
    /\ min_duration = min_static_duration
    /\ in_static = FALSE
    /\ static_start = 0
    /\ segments = <<>>

IdleHighlights ==
    /\ highlight_score_threshold = settings_highlight_score_threshold
    /\ highlight_min_duration = settings_highlight_min_duration
    /\ in_highlight = FALSE
    /\ highlight_start = 0
    /\ highlight_frames = <<>>
    /\ highlights = <<>>

InitTags ==
    /\ op = "extract_tags"
    /\ pc = "tags_entry"
    /\ frame_analyses \in TagRecordLists
    /\ \E a \in TagThresholdArgs :
          tag_threshold = OrDefault(a, tag_frequency_threshold)
    /\ i = 0
    /\ tags = None
    /\ quality = None
    /\ tag_counter = <<>>
    /\ IdlePipeline
    /\ IdleStatic
    /\ IdleHighlights

\* if not frame_analyses: return []
ExtractTagsEmpty ==
    /\ pc = "tags_entry"
    /\ frame_analyses = <<>>
    /\ tags' = Some(<<>>)
    /\ pc' = "done"
    /\ UNCHANGED <<pipeline_vars, op, i, static_vars, highlight_vars, tag_threshold,
                   quality, tag_counter>>

\* The rest of extract_tags.
ExtractTagsCall ==
    /\ pc = "tags_entry"
    /\ frame_analyses # <<>>
    /\ tag_counter' = TagCounter(NewCounter(tag_counter), frame_analyses)
    /\ tags' = Some(FrequentTags(tag_counter', Len(frame_analyses), tag_threshold))
    /\ pc' = "done"
    /\ UNCHANGED <<pipeline_vars, op, i, static_vars, highlight_vars, tag_threshold,
                   quality>>

TagsNext == ExtractTagsEmpty \/ ExtractTagsCall

TagsSpec == InitTags /\ [][TagsNext]_vars

\* ---------------------------------------------------------------------
\* Aggregator.assess_quality
\* ---------------------------------------------------------------------

MaxQualityBlocks == 2

\* Nineteen records and one more make the significance threshold 2.
QualityReps == {1, 2, 19}

\* An issue string is the sequence of its characters.
UpperLetters == <<"A", "B", "C", "D", "E", "F", "G", "H", "I", "J", "K", "L", "M", "N", "O", "P", "Q", "R", "S", "T", "U", "V", "W", "X", "Y", "Z">>

LowerLetters == <<"a", "b", "c", "d", "e", "f", "g", "h", "i", "j", "k", "l", "m", "n", "o", "p", "q", "r", "s", "t", "u", "v", "w", "x", "y", "z">>

\* str.lower(), one character
LowerChar(c) ==
    IF \E k \in 1..Len(UpperLetters) : UpperLetters[k] = c
    THEN LowerLetters[CHOOSE k \in 1..Len(UpperLetters) : UpperLetters[k] = c]
    ELSE c

\* str.lower()
Lower(str) == [k \in 1..Len(str) |-> LowerChar(str[k])]

\* sub in str
Contains(sub, str) ==
    \E k \in 0..(Len(str) - Len(sub)) : SubSeq(str, k + 1, k + Len(sub)) = sub

\* The words assess_quality looks for.
Word_blur == <<"b", "l", "u", "r">>

Word_artifact == <<"a", "r", "t", "i", "f", "a", "c", "t">>

Word_dvr == <<"d", "v", "r">>

Word_signal == <<"s", "i", "g", "n", "a", "l">>

Word_loss == <<"l", "o", "s", "s">>

Word_fog == <<"f", "o", "g">>

Word_weather == <<"w", "e", "a", "t", "h", "e", "r">>

\* Issue strings the classifier may report.
Issue_blur == <<"b", "l", "u", "r">>

Issue_MotionBlur == <<"M", "o", "t", "i", "o", "n", " ", "B", "l", "u", "r">>

Issue_dvr_artifact_heavy == <<"d", "v", "r", "-", "a", "r", "t", "i", "f", "a", "c", "t", "-", "h", "e", "a", "v", "y">>

Issue_DVR == <<"D", "V", "R">>

Issue_blurry_dvr == <<"b", "l", "u", "r", "r", "y", "-", "d", "v", "r">>

Issue_signal_loss == <<"s", "i", "g", "n", "a", "l", "-", "l", "o", "s", "s">>

Issue_PacketLoss == <<"P", "a", "c", "k", "e", "t", " ", "L", "o", "s", "s">>

Issue_lossy_artifact == <<"l", "o", "s", "s", "y", "-", "a", "r", "t", "i", "f", "a", "c", "t">>

Issue_fog == <<"f", "o", "g">>

Issue_glare == <<"g", "l", "a", "r", "e">>

Issue_analysis_error == <<"a", "n", "a", "l", "y", "s", "i", "s", "-", "e", "r", "r", "o", "r">>

\* quality_issues of the records of a quality call.
IssueKinds ==
    {<<>>,
     <<Issue_blur>>,
     <<Issue_dvr_artifact_heavy>>,
     <<Issue_signal_loss, Issue_PacketLoss>>,
     <<Issue_MotionBlur, Issue_fog>>,
     <<Issue_blurry_dvr, Issue_glare>>,
     <<Issue_lossy_artifact, Issue_DVR>>,
     <<Issue_analysis_error>>}

\* One record per second, every field but quality_issues the same.
QualityRecordLists ==
    {[k \in 1..Len(ks) |-> FrameAnalysis(k - 1, k, <<>>, "unknown", 5, ks[k])] :
        ks \in BlockLists(IssueKinds, QualityReps, MaxQualityBlocks)}

\* "dvr" in issue.lower() or "artifact" in issue.lower()
MatchesDvr(issue) ==
    Contains(Word_dvr, Lower(issue)) \/ Contains(Word_artifact, Lower(issue))

\* "signal" in issue.lower() or "loss" in issue.lower()
MatchesSignalLoss(issue) ==
    Contains(Word_signal, Lower(issue)) \/ Contains(Word_loss, Lower(issue))

\* for fa in frame_analyses: for issue in fa.quality_issues: the issues in
\* the order the loops visit them.
RECURSIVE AllIssues(_)
AllIssues(fs) ==
    IF fs = <<>> THEN <<>> ELSE Head(fs).quality_issues \o AllIssues(Tail(fs))

\* issue_counter[issue] += 1, for every issue
IssueCounter(fs) == Counter(AllIssues(fs))

\* Variant: the ten percent are rounded up.
QualityThreshold_Ceil(n) == Max(1, (n * 10 + 99) \div 100)

\* threshold = max(1, int(total_frames * 0.1))
QualityThreshold(n) == Max(1, (n * 10) \div 100)

\* significant_issues = [issue for issue, count in issue_counter.items()
\*                       if count >= threshold]
SignificantIssues(fs) ==
    LET threshold_count == QualityThreshold(Len(fs))
    IN Keys(SelectSeq(IssueCounter(fs), LAMBDA e : e.count >= threshold_count))

\* Variant: the flag looks at the significant issues only.
DvrArtifactsDetected_Significant(fs) ==
    LET significant_issues == SignificantIssues(fs)
    IN \E k \in 1..Len(significant_issues) : MatchesDvr(significant_issues[k])

\* dvr_artifacts_detected = True, once an issue matches
DvrArtifactsDetected(fs) ==
    LET all_issues == AllIssues(fs)
    IN \E k \in 1..Len(all_issues) : MatchesDvr(all_issues[k])

\* signal_loss_segments.append({"start": fa.timestamp,
\*                              "end": fa.timestamp + 1.0}), per matching issue
RECURSIVE IssueSegments(_, _)
IssueSegments(timestamp, issues) ==
    IF issues = <<>> THEN <<>>
    ELSE (IF MatchesSignalLoss(Head(issues))
          THEN <<[start |-> timestamp, end |-> timestamp + 1]>> ELSE <<>>)
            \o IssueSegments(timestamp, Tail(issues))

RECURSIVE SignalLossSegments(_)
SignalLossSegments(fs) ==
    IF fs = <<>> THEN <<>>
    ELSE IssueSegments(Head(fs).timestamp, Head(fs).quality_issues)
            \o SignalLossSegments(Tail(fs))

\* Variant: artifacts are looked for before blur.
Deduction_ArtifactFirst(issue) ==
    IF MatchesDvr(issue) THEN 3
    ELSE IF Contains(Word_blur, Lower(issue)) THEN 2
    ELSE IF MatchesSignalLoss(issue) THEN 4
    ELSE IF Contains(Word_fog, Lower(issue)) \/ Contains(Word_weather, Lower(issue)) THEN 1
    ELSE 0

\* The if / elif chain of the score loop.
Deduction(issue) ==
    IF Contains(Word_blur, Lower(issue)) THEN 2
    ELSE IF Contains(Word_artifact, Lower(issue)) \/ Contains(Word_dvr, Lower(issue)) THEN 3
    ELSE IF Contains(Word_signal, Lower(issue)) \/ Contains(Word_loss, Lower(issue)) THEN 4
    ELSE IF Contains(Word_fog, Lower(issue)) \/ Contains(Word_weather, Lower(issue)) THEN 1
    ELSE 0

RECURSIVE SumDeductions(_)
SumDeductions(issues) ==
    IF issues = <<>> THEN 0 ELSE Deduction(Head(issues)) + SumDeductions(Tail(issues))

\* overall_score = 10; the deductions; max(1, min(10, overall_score))
OverallScore(issues) == Max(1, Min(10, 10 - SumDeductions(issues)))

QualityMetadata(overall_score, issues, dvr_artifacts_detected, signal_loss_segments) ==
    [overall_score |-> overall_score, issues |-> issues,
     dvr_artifacts_detected |-> dvr_artifacts_detected,
     signal_loss_segments |-> signal_loss_segments]

\* Variant: the default score is the best one.
QualityMetadataDefault_Best == QualityMetadata(10, <<>>, FALSE, <<>>)

\* QualityMetadata()
QualityMetadataDefault == QualityMetadata(5, <<>>, FALSE, <<>>)

AssessQuality(fs) ==
    LET significant_issues == SignificantIssues(fs)
    IN QualityMetadata(OverallScore(significant_issues), significant_issues,
                       DvrArtifactsDetected(fs), SignalLossSegments(fs))

InitQuality ==
    /\ op = "assess_quality"
    /\ pc = "quality_entry"
    /\ frame_analyses \in QualityRecordLists
    /\ tag_threshold = tag_frequency_threshold
    /\ i = 0
    /\ tags = None
    /\ quality = None
    /\ tag_counter = <<>>
    /\ IdlePipeline
    /\ IdleStatic
    /\ IdleHighlights

\* if not frame_analyses: return QualityMetadata()
AssessQualityEmpty ==
    /\ pc = "quality_entry"
    /\ frame_analyses = <<>>
    /\ quality' = Some(QualityMetadataDefault)
    /\ pc' = "done"
    /\ UNCHANGED <<pipeline_vars, op, i, static_vars, highlight_vars, tag_threshold,
                   tags, tag_counter>>

\* The rest of assess_quality.
AssessQualityCall ==
    /\ pc = "quality_entry"
    /\ frame_analyses # <<>>
    /\ quality' = Some(AssessQuality(frame_analyses))
    /\ pc' = "done"
    /\ UNCHANGED <<pipeline_vars, op, i, static_vars, highlight_vars, tag_threshold,
                   tags, tag_counter>>

QualityNext == AssessQualityEmpty \/ AssessQualityCall

QualitySpec == InitQuality /\ [][QualityNext]_vars

\* ---------------------------------------------------------------------
\* Aggregator.detect_highlights over records that carry tags
\* ---------------------------------------------------------------------

MaxTaggedRecords == 4

\* (interest_score, environment, flight_style) of the records.
TaggedKinds ==
    {<<8, <<"forest", "water", "field">>, "freestyle">>,
     <<8, <<"urban", "night", "forest">>, "stationary">>,
     <<10, <<"night", "urban", "hill">>, "cinematic">>,
     <<8, <<"water">>, "unknown">>,
     <<7, <<>>, "">>,
     <<6, <<"indoor", "forest">>, "racing">>}

\* One record every five seconds.
TaggedRecordLists ==
    {[k \in 1..Len(ks) |->
        FrameAnalysis(5 * (k - 1), k, ks[k][2], ks[k][3], ks[k][1], <<>>)] :
        ks \in SeqsUpTo(TaggedKinds, MaxTaggedRecords)}

InitHighlightTags ==
    /\ op = "detect_highlights"
    /\ pc = "highlights_entry"
    /\ frame_analyses \in TaggedRecordLists
    /\ highlight_score_threshold = settings_highlight_score_threshold
    /\ highlight_min_duration = settings_highlight_min_duration
    /\ i = 0
    /\ in_highlight = FALSE
    /\ highlight_start = 0
    /\ highlight_frames = <<>>
    /\ highlights = <<>>
    /\ tag_threshold = tag_frequency_threshold
    /\ tags = None
    /\ quality = None
    /\ tag_counter = <<>>
    /\ IdlePipeline
    /\ IdleStatic

HighlightTagsSpec == InitHighlightTags /\ [][HighlightsNext]_vars

\* ---------------------------------------------------------------------
\* One call of one of the Aggregator's three methods
\* ---------------------------------------------------------------------

AggregatorInit == InitTags \/ InitHighlightTags \/ InitQuality

AggregatorNext == TagsNext \/ HighlightsNext \/ QualityNext

AggregatorSpec == AggregatorInit /\ [][AggregatorNext]_vars

\* ---------------------------------------------------------------------
\* Stage 5 of analyze_video: the Aggregator's methods called on one record
\* list, in any order and more than once
\* ---------------------------------------------------------------------

MaxCalls == 4

MaxStageRecords == 3

Methods == {"extract_tags", "detect_highlights", "assess_quality"}

\* Aggregator(tag_threshold=...): 1.0 keeps the tags every record carries.
StageTagThresholdArgs == {None, Some(100)}

\* (interest_score, environment, flight_style, quality_issues)
StageKinds ==
    {<<8, <<"forest", "water">>, "freestyle", <<Issue_blur>>>>,
     <<8, <<"water">>, "unknown", <<Issue_signal_loss>>>>,
     <<5, <<"forest">>, "racing", <<>>>>}

\* One record every five seconds.
StageRecordLists ==
    {[k \in 1..Len(ks) |->
        FrameAnalysis(5 * (k - 1), k, ks[k][2], ks[k][3], ks[k][1], ks[k][4])] :
        ks \in SeqsUpTo(StageKinds, MaxStageRecords)}

InitStage ==
    /\ op = "none"
    /\ pc = "idle"
    /\ frame_analyses \in StageRecordLists
    /\ \E a \in StageTagThresholdArgs :
          tag_threshold = OrDefault(a, tag_frequency_threshold)
    /\ i = 0
    /\ tags = None
    /\ quality = None
    /\ tag_counter = <<>>
    /\ previous = [m \in Methods |-> None]
    /\ calls = 0
    /\ IdleArgs
    /\ IdleAnalysis
    /\ IdleRequests
    /\ IdleStatic
    /\ IdleHighlights

\* Where a method starts.
Entry(m) ==
    CASE m = "extract_tags" -> "tags_entry"
      [] m = "detect_highlights" -> "highlights_entry"
      [] m = "assess_quality" -> "quality_entry"

\* What a method has returned.
Result(m) ==
    CASE m = "extract_tags" -> tags[1]
      [] m = "detect_highlights" -> highlights
      [] m = "assess_quality" -> quality[1]

\* self.aggregator.<method>(frame_analyses): the next call, the result of
\* the call before it kept by the caller.
StageInvoke ==
    /\ pc \in {"idle", "done"}
    /\ calls < MaxCalls
    /\ \E m \in Methods : op' = m /\ pc' = Entry(m)
    /\ previous' = IF pc = "done"
                   THEN [previous EXCEPT ![op] = Some(Result(op))]
                   ELSE previous
    /\ calls' = calls + 1
    /\ UNCHANGED <<i, static_vars, highlight_vars, aggregate_vars, args, failed,
                   ppc, force, temp_dir, ran, sidecar>>

StageNext == StageInvoke \/ TagsNext \/ HighlightsNext \/ QualityNext

StageSpec == InitStage /\ [][StageNext]_vars

\* ---------------------------------------------------------------------
\* AnalysisPipeline._analyze_frames and OllamaVisionClient.analyze_frame
\* ---------------------------------------------------------------------

MaxAnalyzed == 3

\* settings.frame_sample_interval = 2.0: the frames are two seconds apart.
frame_sample_interval == 2

AnalyzedFrameLists ==
    {[k \in 1..n |-> [timestamp |-> frame_sample_interval * (k - 1)]] :
        n \in 0..MaxAnalyzed}

\* What the model answers for a frame when its answer parses:
\* (interest_score, environment, flight_style, quality_issues).
Answers ==
    {<<12, <<"forest", "water">>, "freestyle", <<Issue_blur>>>>,
     <<0, <<"urban">>, "stationary", <<>>>>,
     <<8, <<>>, "racing", <<Issue_signal_loss>>>>}

\* min(10, max(1, interest_score))
ClampScore(score) == Min(10, Max(1, score))

\* The FrameAnalysis that analyze_frame builds from a parsed answer.
AnswerRecord(frame, answer) ==
    FrameAnalysis(frame.timestamp, "answer", answer[2], answer[3],
                  ClampScore(answer[1]), answer[4])

\* json.JSONDecodeError: the defaults stand in for the answer.
UnparsedRecord(frame) ==
    FrameAnalysis(frame.timestamp, "Unable to analyze frame", <<>>, "unknown",
                  ClampScore(5), <<>>)

\* except Exception in analyze_frame: the minimal analysis.
ErrorRecord(frame) ==
    FrameAnalysis(frame.timestamp, "Error analyzing frame", <<>>, "unknown", 5,
                  <<Issue_analysis_error>>)

\* except Exception in _analyze_frames: the minimal analysis.
FailedRecord(frame) ==
    FrameAnalysis(frame.timestamp, "Analysis failed", <<>>, "unknown", 5,
                  <<Issue_analysis_error>>)

\* Variant: a frame whose analysis raised leaves no record.
AfterFailure_Dropped(records, frame) == records

\* frame_analyses.append(FrameAnalysis(...)) of the except branch
AfterFailure(records, frame) == Append(records, FailedRecord(frame))

InitAnalyze ==
    /\ op = "_analyze_frames"
    /\ pc = "analyze_entry"
    /\ frames \in AnalyzedFrameLists
    /\ frame_analyses = <<>>
    /\ failed = {}
    /\ i = 0
    /\ frame_diffs = <<>>
    /\ video_duration = 0
    /\ threshold = static_threshold
    /\ min_duration = min_static_duration
    /\ in_static = FALSE
    /\ static_start = 0
    /\ segments = <<>>
    /\ IdleHighlights
    /\ tag_threshold = tag_frequency_threshold
    /\ tags = None
    /\ quality = None
    /\ tag_counter = <<>>
    /\ IdleStage
    /\ IdleArgs
    /\ IdleRequests

\* frame_analyses = []; for i, frame in enumerate(frames)
AnalyzeBegin ==
    /\ pc = "analyze_entry"
    /\ frame_analyses' = <<>>
    /\ i' = 0
    /\ pc' = "analyze_loop"
    /\ UNCHANGED <<op, frames, frame_diffs, video_duration, threshold, min_duration,
                   in_static, static_start, segments, highlight_score_threshold,
                   highlight_min_duration, in_highlight, highlight_start,
                   highlight_frames, highlights, aggregate_vars, pipeline_vars>>

\* One pass of the loop body, analyze_frame included: the answer parses,
\* does not parse, an exception is caught inside analyze_frame, or one
\* comes out of it and is caught by the loop body.
AnalyzeFrame ==
    /\ pc = "analyze_loop"
    /\ i < Len(frames)
    /\ \/ \E answer \in Answers :
             /\ frame_analyses' = Append(frame_analyses, AnswerRecord(At(frames, i), answer))
             /\ failed' = failed
       \/ /\ frame_analyses' = Append(frame_analyses, UnparsedRecord(At(frames, i)))
          /\ failed' = failed \cup {i}
       \/ /\ frame_analyses' = Append(frame_analyses, ErrorRecord(At(frames, i)))
          /\ failed' = failed \cup {i}
       \/ /\ frame_analyses' = AfterFailure(frame_analyses, At(frames, i))
          /\ failed' = failed \cup {i}
    /\ i' = i + 1
    /\ UNCHANGED <<op, pc, frames, frame_diffs, video_duration, threshold, min_duration,
                   in_static, static_start, segments, highlight_score_threshold,
                   highlight_min_duration, in_highlight, highlight_start,
                   highlight_frames, highlights, aggregate_vars, previous, calls,
                   args, ppc, force, temp_dir, ran, sidecar>>

\* return frame_analyses
AnalyzeReturn ==
    /\ pc = "analyze_loop"
    /\ i >= Len(frames)
    /\ pc' = "done"
    /\ UNCHANGED <<op, i, static_vars, highlight_vars, aggregate_vars, pipeline_vars>>

AnalyzeNext == AnalyzeBegin \/ AnalyzeFrame \/ AnalyzeReturn

AnalyzeSpec == InitAnalyze /\ [][AnalyzeNext]_vars

\* ---------------------------------------------------------------------
\* AnalysisPipeline.analyze_video: concurrent requests for one video
\* ---------------------------------------------------------------------

MaxRequests == 2

Requests == 1..MaxRequests

\* The sidecar that was on disk before any request, as file content.
Existing == 0

\* Stages 1 to 7, in the order of the try block.
Stages == <<"probe", "extract", "static", "frames", "aggregate", "summary", "write">>

StageIndex(stage) == CHOOSE k \in 1..Len(Stages) : Stages[k] = stage

\* Variant: the sidecar is written once the aggregation is done, and the
\* summary is generated after it.
StageAfter_WriteBeforeSummary(stage) ==
    CASE stage = "aggregate" -> "write"
      [] stage = "write" -> "summary"
      [] stage = "summary" -> "finally_return"
      [] OTHER -> Stages[StageIndex(stage) + 1]

\* The statement the try block goes on with after a stage; after the
\* write, `return metadata` through the finally clause.
StageAfter(stage) ==
    IF StageIndex(stage) = Len(Stages)
    THEN "finally_return"
    ELSE Stages[StageIndex(stage) + 1]

Terminated == {"returned", "raised", "FileNotFoundError", "FileExistsError"}

InitPipeline ==
    /\ op = "analyze_video"
    /\ pc = "idle"
    /\ ppc = [p \in Requests |-> "entry"]
    /\ force \in [Requests -> BOOLEAN]
    /\ temp_dir = [p \in Requests |-> "None"]
    /\ ran = [p \in Requests |-> <<>>]
    /\ sidecar \in {None, Some(Existing)}
    /\ frame_analyses = <<>>
    /\ failed = {}
    /\ i = 0
    /\ IdleStatic
    /\ IdleHighlights
    /\ tag_threshold = tag_frequency_threshold
    /\ tags = None
    /\ quality = None
    /\ tag_counter = <<>>
    /\ IdleStage
    /\ IdleArgs

\* Lines 58-71: the two checks ahead of the try block.
AnalyzeVideoEntry(p) ==
    /\ ppc[p] = "entry"
    /\ \E video_exists \in BOOLEAN :
          ppc' = [ppc EXCEPT ![p] =
                    IF ~video_exists THEN "FileNotFoundError"
                    ELSE IF sidecar # None /\ ~force[p] THEN "FileExistsError"
                    ELSE Stages[1]]
    /\ UNCHANGED <<op, pc, i, static_vars, highlight_vars, aggregate_vars, previous,
                   calls, args, failed, force, temp_dir, ran, sidecar>>

\* Stage 2: mkdtemp, then extract_frames_opencv; no frame is an error.
ExtractStage(p) ==
    /\ ppc[p] = "extract"
    /\ \E outcome \in {"mkdtemp raises", "extraction raises", "no frames", "frames"} :
          /\ temp_dir' = [temp_dir EXCEPT ![p] =
                            IF outcome = "mkdtemp raises" THEN "None" ELSE "created"]
          /\ IF outcome = "frames"
             THEN /\ ppc' = [ppc EXCEPT ![p] = StageAfter("extract")]
                  /\ ran' = [ran EXCEPT ![p] = Append(@, "extract")]
             ELSE /\ ppc' = [ppc EXCEPT ![p] = "finally_raise"]
                  /\ ran' = ran
    /\ UNCHANGED <<op, pc, i, static_vars, highlight_vars, aggregate_vars, previous,
                   calls, args, failed, force, sidecar>>

\* Stages 1, 3, 4, 5 and 6: the stage returns, or an exception leaves the
\* try block.
RunStage(p) ==
    /\ ppc[p] \in {"probe", "static", "frames", "aggregate", "summary"}
    /\ \E raises \in BOOLEAN :
          IF raises
          THEN /\ ppc' = [ppc EXCEPT ![p] = "finally_raise"]
               /\ ran' = ran
          ELSE /\ ppc' = [ppc EXCEPT ![p] = StageAfter(ppc[p])]
               /\ ran' = [ran EXCEPT ![p] = Append(@, ppc[p])]
    /\ UNCHANGED <<op, pc, i, static_vars, highlight_vars, aggregate_vars, previous,
                   calls, args, failed, force, temp_dir, sidecar>>

\* Stage 7, _write_sidecar: open(sidecar_path, "w") and json.dump, or an
\* exception before the file is opened.
WriteSidecar(p) ==
    /\ ppc[p] = "write"
    /\ \E raises \in BOOLEAN :
          IF raises
          THEN /\ ppc' = [ppc EXCEPT ![p] = "finally_raise"]
               /\ UNCHANGED <<ran, sidecar>>
          ELSE /\ sidecar' = Some(p)
               /\ ppc' = [ppc EXCEPT ![p] = StageAfter("write")]
               /\ ran' = [ran EXCEPT ![p] = Append(@, "write")]
    /\ UNCHANGED <<op, pc, i, static_vars, highlight_vars, aggregate_vars, previous,
                   calls, args, failed, force, temp_dir>>

\* finally: if temp_dir and os.path.exists(temp_dir): shutil.rmtree(temp_dir)
Finally(p) ==
    /\ ppc[p] \in {"finally_return", "finally_raise"}
    /\ temp_dir' = [temp_dir EXCEPT ![p] = IF @ = "created" THEN "removed" ELSE @]
    /\ ppc' = [ppc EXCEPT ![p] = IF @ = "finally_raise" THEN "raised" ELSE "returned"]
    /\ UNCHANGED <<op, pc, i, static_vars, highlight_vars, aggregate_vars, previous,
                   calls, args, failed, force, ran, sidecar>>

PipelineNext ==
    \E p \in Requests :
        \/ AnalyzeVideoEntry(p)
        \/ ExtractStage(p)
        \/ RunStage(p)
        \/ WriteSidecar(p)
        \/ Finally(p)

PipelineSpec == InitPipeline /\ [][PipelineNext]_vars

\* ---------------------------------------------------------------------
\* StaticDetector.__init__ and Aggregator.__init__
\* ---------------------------------------------------------------------

\* The keyword arguments of the two constructors.
Parameters(class) ==
    IF class = "StaticDetector"
    THEN {"threshold", "min_duration"}
    ELSE {"tag_threshold", "highlight_score_threshold", "highlight_min_duration"}

\* The values a caller passes: nothing, 0, or a value of its own.
ArgumentValues(parameter) ==
    CASE parameter = "threshold" -> ThresholdArgs
      [] parameter = "min_duration" -> MinDurationArgs
      [] parameter = "tag_threshold" -> TagThresholdArgs
      [] parameter = "highlight_score_threshold" -> ScoreThresholdArgs
      [] parameter = "highlight_min_duration" -> HighlightMinDurationArgs

\* The setting a parameter falls back to, as shipped.
SettingDefault(parameter) ==
    CASE parameter = "threshold" -> static_threshold
      [] parameter = "min_duration" -> min_static_duration
      [] parameter = "tag_threshold" -> tag_frequency_threshold
      [] parameter = "highlight_score_threshold" -> settings_highlight_score_threshold
      [] parameter = "highlight_min_duration" -> settings_highlight_min_duration

\* Settings is read from the environment and .env: a deployment may set
\* any value, 0 included.
SettingValues(parameter) == {SettingDefault(parameter), 0}

InitConstruct ==
    /\ op \in {"StaticDetector", "Aggregator"}
    /\ pc = "construct_entry"
    /\ \E given \in [Parameters(op) -> UNION {ArgumentValues(x) : x \in Parameters(op)}],
          settings \in [Parameters(op) -> UNION {SettingValues(x) : x \in Parameters(op)}] :
          /\ \A x \in Parameters(op) :
                given[x] \in ArgumentValues(x) /\ settings[x] \in SettingValues(x)
          /\ args = [given |-> given, settings |-> settings]
    /\ frame_analyses = <<>>
    /\ failed = {}
    /\ i = 0
    /\ IdleStatic
    /\ IdleHighlights
    /\ tag_threshold = tag_frequency_threshold
    /\ tags = None
    /\ quality = None
    /\ tag_counter = <<>>
    /\ IdleStage
    /\ IdleRequests

\* StaticDetector.__init__
ConstructStaticDetector ==
    /\ op = "StaticDetector"
    /\ pc = "construct_entry"
    /\ threshold' = OrDefault(args.given["threshold"], args.settings["threshold"])
    /\ min_duration' = OrDefault(args.given["min_duration"], args.settings["min_duration"])
    /\ pc' = "done"
    /\ UNCHANGED <<op, i, frames, frame_diffs, video_duration, in_static, static_start,
                   segments, highlight_vars, aggregate_vars, pipeline_vars>>

\* Aggregator.__init__
ConstructAggregator ==
    /\ op = "Aggregator"
    /\ pc = "construct_entry"
    /\ tag_threshold' = OrDefault(args.given["tag_threshold"], args.settings["tag_threshold"])
    /\ highlight_score_threshold' =
          OrDefault(args.given["highlight_score_threshold"],
                    args.settings["highlight_score_threshold"])
    /\ highlight_min_duration' =
          OrDefault(args.given["highlight_min_duration"],
                    args.settings["highlight_min_duration"])
    /\ pc' = "done"
    /\ UNCHANGED <<op, i, static_vars, frame_analyses, in_highlight, highlight_start,
                   highlight_frames, highlights, tags, quality, tag_counter,
                   pipeline_vars>>

ConstructNext == ConstructStaticDetector \/ ConstructAggregator

ConstructSpec == InitConstruct /\ [][ConstructNext]_vars

Init == InitStatic \/ InitHighlights

Next == StaticNext \/ HighlightsNext

Spec == Init /\ [][Next]_vars

\* ---------------------------------------------------------------------
\* The run detectors called with timestamps in any order
\* ---------------------------------------------------------------------

MaxUnordered == 3

UnorderedTimes == {0, 2, 5}

\* Frame lists as a caller may hand them over: nothing orders them.
UnorderedFrameLists ==
    {[k \in 1..Len(ts) |-> [timestamp |-> ts[k]]] :
        ts \in SeqsUpTo(UnorderedTimes, MaxUnordered)}

UnorderedRecordLists ==
    {[k \in 1..Len(ts) |-> FrameAnalysis(ts[k], k, <<>>, "", sc[k], <<>>)] :
        <<ts, sc>> \in
            {p \in SeqsUpTo(UnorderedTimes, MaxUnordered)
                        \X SeqsUpTo(ScoreValues, MaxUnordered) :
                Len(p[1]) = Len(p[2])}}

InitUnorderedStatic ==
    /\ op = "detect_static_segments"
    /\ pc = "static_entry"
    /\ frames \in UnorderedFrameLists
    /\ frame_diffs \in [1..(Len(frames) - 1) -> DiffValues]
    /\ video_duration \in VideoDurations
    /\ threshold = static_threshold
    /\ min_duration = min_static_duration
    /\ i = 0
    /\ in_static = FALSE
    /\ static_start = 0
    /\ segments = <<>>
    /\ frame_analyses = <<>>
    /\ IdleHighlights
    /\ tag_threshold = tag_frequency_threshold
    /\ tags = None
    /\ quality = None
    /\ tag_counter = <<>>
    /\ IdlePipeline

InitUnorderedHighlights ==
    /\ op = "detect_highlights"
    /\ pc = "highlights_entry"
    /\ frame_analyses \in UnorderedRecordLists
    /\ IdleHighlights
    /\ i = 0
    /\ IdleStatic
    /\ tag_threshold = tag_frequency_threshold
    /\ tags = None
    /\ quality = None
    /\ tag_counter = <<>>
    /\ IdlePipeline

UncheckedInit == InitUnorderedStatic \/ InitUnorderedHighlights

UncheckedSpec == UncheckedInit /\ [][Next]_vars

(***************************************************************************)
(* The inputs as the properties read them.                                 *)
(***************************************************************************)
NFrames == Len(frames)
NRecords == Len(frame_analyses)
FrameTs(k) == frames[k].timestamp
RecordTs(k) == frame_analyses[k].timestamp
RecordScore(k) == frame_analyses[k].interest_score

StaticCall == op = "detect_static_segments"
HighlightsCall == op = "detect_highlights"
StaticReturned == StaticCall /\ pc = "done"
HighlightsReturned == HighlightsCall /\ pc = "done"

\* The scan is about to read a sample that leaves the run it is in.
StaticAtExit ==
    /\ pc = "static_loop" /\ i < NFrames
    /\ in_static /\ frame_diffs[i] >= threshold
HighlightsAtExit ==
    /\ pc = "highlights_loop" /\ i < NRecords
    /\ in_highlight /\ RecordScore(i + 1) < highlight_score_threshold
\* The series has ended inside a run.
StaticAtTail == pc = "static_loop" /\ i >= NFrames /\ in_static
HighlightsAtTail == pc = "highlights_loop" /\ i >= NRecords /\ in_highlight

\* A static run lo..hi of frame pairs (pair k compares frames k and k + 1):
\* every pair is below the threshold, and neither neighbouring pair is.
IsStaticRun(lo, hi) ==
    /\ lo <= hi
    /\ \A k \in lo..hi : frame_diffs[k] < threshold
    /\ lo > 1 => frame_diffs[lo - 1] >= threshold
    /\ hi < NFrames - 1 => frame_diffs[hi + 1] >= threshold
StaticRuns ==
    {r \in (1..(NFrames - 1)) \X (1..(NFrames - 1)) : IsStaticRun(r[1], r[2])}

\* A stretch lo..hi of records: all at or above the score threshold, and
\* neither neighbour is.
IsStretch(lo, hi) ==
    /\ lo <= hi
    /\ \A k \in lo..hi : RecordScore(k) >= highlight_score_threshold
    /\ lo > 1 => RecordScore(lo - 1) < highlight_score_threshold
    /\ hi < NRecords => RecordScore(hi + 1) < highlight_score_threshold
Stretches == {s \in (1..NRecords) \X (1..NRecords) : IsStretch(s[1], s[2])}
LongStretches ==
    {s \in Stretches : RecordTs(s[2]) - RecordTs(s[1]) >= highlight_min_duration}
\* The k-th long stretch in record order.
LongStretch(k) ==
    CHOOSE s \in LongStretches :
        Cardinality({r \in LongStretches : r[1] < s[1]}) = k - 1

(***************************************************************************)
(* C1.  Every emitted static segment and every emitted highlight lasts at  *)
(* least the configured minimum duration; a run that ends shorter emits    *)
(* nothing, and after an exit sample the scanner is out of the run.        *)
(***************************************************************************)
C1_FloorHolds ==
    /\ \A k \in 1..Len(segments) :
          segments[k].end - segments[k].start >= min_duration
    /\ \A k \in 1..Len(highlights) :
          highlights[k].end - highlights[k].start >= highlight_min_duration

C1_ShortRunDropped ==
    /\ (StaticAtExit /\ FrameTs(i + 1) - static_start < min_duration)
          => (segments' = segments /\ in_static' = FALSE)
    /\ (StaticAtTail /\ FrameTs(NFrames) - static_start < min_duration)
          => segments' = segments
    /\ (HighlightsAtExit /\ RecordTs(i) - highlight_start < highlight_min_duration)
          => (highlights' = highlights /\ in_highlight' = FALSE)
    /\ (HighlightsAtTail /\ RecordTs(NRecords) - highlight_start < highlight_min_duration)
          => highlights' = highlights

\* C1: every emitted segment and highlight meets its duration floor, and a
\* run below the floor emits nothing and leaves the scanner out of the run.
C1_MinDuration == [](C1_FloorHolds) /\ [][C1_ShortRunDropped]_vars

\* A static scan that dropped a run of 2 s at its exit sample under a floor
\* of 3 s, and kept another run.
C1_Witness ==
    /\ StaticReturned
    /\ min_duration = 3
    /\ Len(segments) = 1
    /\ \E r \in StaticRuns :
          /\ r[2] < NFrames - 1
          /\ FrameTs(r[2] + 2) - FrameTs(r[1]) = 2

(***************************************************************************)
(* C2.  detect_highlights returns one highlight per stretch of records at  *)
(* or above the score threshold whose last member is at least the minimum  *)
(* duration after its first, in record order, and nothing else; each       *)
(* highlight starts at its stretch's first record.                         *)
(***************************************************************************)
C2_OnePerLongStretch ==
    HighlightsReturned =>
        /\ Len(highlights) = Cardinality(LongStretches)
        /\ \A k \in 1..Len(highlights) :
              /\ highlights[k].start = RecordTs(LongStretch(k)[1])
              /\ highlights[k].end = RecordTs(LongStretch(k)[2])

\* Two stretches: the first too short, the second emitted.
C2_Witness ==
    /\ HighlightsReturned
    /\ Cardinality(Stretches) = 2
    /\ Len(highlights) = 1
    /\ \E s \in Stretches \ LongStretches : s[2] < LongStretch(1)[1]

(***************************************************************************)
(* C3 (as the specification has it).  A run that a record below the score  *)
(* threshold closes ends at that record's timestamp, and the minimum       *)
(* duration is measured to that timestamp.                                 *)
(***************************************************************************)
C3_EndsAtExitRecordStep ==
    HighlightsAtExit =>
        IF RecordTs(i + 1) - highlight_start >= highlight_min_duration
        THEN /\ Len(highlights') = Len(highlights) + 1
             /\ highlights'[Len(highlights')].end = RecordTs(i + 1)
        ELSE highlights' = highlights

\* C3 (as the specification has it): an exit closes the run at the exit
\* record's timestamp and the floor is measured to it.
C3_EndsAtExitRecord == [][C3_EndsAtExitRecordStep]_vars

(***************************************************************************)
(* C3 (amended).  A run that a record below the score threshold closes     *)
(* ends at the timestamp of the record before it, the run's last member,   *)
(* and the minimum duration is measured to that timestamp.                 *)
(***************************************************************************)
C3_EndsAtLastMemberStep ==
    HighlightsAtExit =>
        IF RecordTs(i) - highlight_start >= highlight_min_duration
        THEN /\ Len(highlights') = Len(highlights) + 1
             /\ highlights'[Len(highlights')].start = highlight_start
             /\ highlights'[Len(highlights')].end = RecordTs(i)
        ELSE highlights' = highlights

\* C3 (amended): an exit closes the run at its last member's timestamp and
\* the floor is measured to it.
C3_EndsAtLastMember == [][C3_EndsAtLastMemberStep]_vars

\* A highlight was closed by a record below the threshold whose timestamp
\* is later than the last member's.
C3_Witness ==
    /\ HighlightsCall
    /\ pc = "highlights_loop"
    /\ Len(highlights) = 1
    /\ i >= 2
    /\ RecordScore(i) < highlight_score_threshold
    /\ RecordScore(i - 1) >= highlight_score_threshold
    /\ highlights[1].end = RecordTs(i - 1)
    /\ RecordTs(i) > RecordTs(i - 1)

(***************************************************************************)
(* C4.  A static run starts at the earlier frame of the first comparison   *)
(* below the threshold and, closed by a comparison at or above it, ends at *)
(* the later frame of that comparison; a highlight run starts at the first *)
(* record that passes the score threshold.                                 *)
(***************************************************************************)
C4_AnchorsStep ==
    /\ (pc = "static_loop" /\ i < NFrames /\ ~in_static /\ frame_diffs[i] < threshold)
          => (in_static' /\ static_start' = FrameTs(i))
    /\ (pc = "static_loop" /\ i < NFrames /\ in_static /\ frame_diffs[i] < threshold)
          => (in_static' /\ static_start' = static_start)
    /\ (StaticAtExit /\ Len(segments') > Len(segments))
          => /\ segments'[Len(segments')].start = static_start
             /\ segments'[Len(segments')].end = FrameTs(i + 1)
    /\ (pc = "highlights_loop" /\ i < NRecords /\ ~in_highlight
            /\ RecordScore(i + 1) >= highlight_score_threshold)
          => (in_highlight' /\ highlight_start' = RecordTs(i + 1))
    /\ (pc = "highlights_loop" /\ i < NRecords /\ in_highlight
            /\ RecordScore(i + 1) >= highlight_score_threshold)
          => (in_highlight' /\ highlight_start' = highlight_start)

\* C4: a static run is anchored at the frame before the first low comparison
\* and closed at the later frame of the exit comparison; a highlight run is
\* anchored at the first passing record.
C4_Anchors == [][C4_AnchorsStep]_vars

\* A static run that began after the first comparison and was closed by an
\* exit comparison: its segment runs from the frame before the first low
\* comparison to the later frame of the exit comparison.
C4_Witness ==
    /\ StaticReturned
    /\ Len(segments) = 1
    /\ \E r \in StaticRuns :
          /\ r[1] > 1
          /\ r[2] < NFrames - 1
          /\ segments[1].start = FrameTs(r[1])
          /\ segments[1].end = FrameTs(r[2] + 2)

(***************************************************************************)
(* C5 (as the specification has it).  Static segments come in              *)
(* non-decreasing start order and are disjoint as closed intervals: each   *)
(* ends strictly before the next starts.                                   *)
(***************************************************************************)
C5_StrictlyApart ==
    StaticCall =>
        \A k \in 1..(Len(segments) - 1) :
            /\ segments[k].start <= segments[k + 1].start
            /\ segments[k].end < segments[k + 1].start

(***************************************************************************)
(* C5 (amended).  Static segments come in non-decreasing start order and   *)
(* each ends no later than the next starts; the two may share that one     *)
(* timestamp.                                                              *)
(***************************************************************************)
C5_OrderedTouching ==
    StaticCall =>
        \A k \in 1..(Len(segments) - 1) :
            /\ segments[k].start <= segments[k + 1].start
            /\ segments[k].end <= segments[k + 1].start

\* Two segments, the second starting at the frame that closed the first.
C5_Witness ==
    /\ StaticReturned
    /\ Len(segments) = 2
    /\ segments[1].end = segments[2].start
    /\ segments[1].start < segments[1].end
    /\ segments[2].start < segments[2].end

(***************************************************************************)
(* C6.  Highlights come in non-decreasing start order, each ends no later  *)
(* than the next starts, and a record below the score threshold lies       *)
(* between the last member of one and the first member of the next.        *)
(***************************************************************************)
C6_OrderedSeparated ==
    HighlightsCall =>
        \A k \in 1..(Len(highlights) - 1) :
            /\ highlights[k].start <= highlights[k + 1].start
            /\ highlights[k].end <= highlights[k + 1].start
            /\ \E a \in Stretches, b \in Stretches :
                  /\ RecordTs(a[1]) = highlights[k].start
                  /\ RecordTs(a[2]) = highlights[k].end
                  /\ RecordTs(b[1]) = highlights[k + 1].start
                  /\ RecordTs(b[2]) = highlights[k + 1].end
                  /\ \E j \in (a[2] + 1)..(b[1] - 1) :
                        RecordScore(j) < highlight_score_threshold

\* Two highlights.
C6_Witness ==
    /\ HighlightsReturned
    /\ Len(highlights) = 2
    /\ highlights[1].start < highlights[1].end
    /\ highlights[2].start < highlights[2].end

(***************************************************************************)
(* C7.  A run the series ends in is closed at the last sample's timestamp  *)
(* and kept under the same minimum-duration test; when every comparison of *)
(* at least two frames is below the static threshold and the last frame is *)
(* at least the minimum duration after the first, the result is the one    *)
(* segment from the first frame to the last.                               *)
(***************************************************************************)
C7_TailStep ==
    /\ StaticAtTail =>
          IF FrameTs(NFrames) - static_start >= min_duration
          THEN /\ Len(segments') = Len(segments) + 1
               /\ SubSeq(segments', 1, Len(segments)) = segments
               /\ segments'[Len(segments')].start = static_start
               /\ segments'[Len(segments')].end = FrameTs(NFrames)
          ELSE segments' = segments
    /\ HighlightsAtTail =>
          IF RecordTs(NRecords) - highlight_start >= highlight_min_duration
          THEN /\ Len(highlights') = Len(highlights) + 1
               /\ SubSeq(highlights', 1, Len(highlights)) = highlights
               /\ highlights'[Len(highlights')].start = highlight_start
               /\ highlights'[Len(highlights')].end = RecordTs(NRecords)
          ELSE highlights' = highlights

C7_AllStatic ==
    (/\ StaticReturned
     /\ NFrames >= 2
     /\ \A k \in 1..(NFrames - 1) : frame_diffs[k] < threshold
     /\ FrameTs(NFrames) - FrameTs(1) >= min_duration)
    => /\ Len(segments) = 1
       /\ segments[1].start = FrameTs(1)
       /\ segments[1].end = FrameTs(NFrames)

\* C7: a run the series ends in is closed at the last sample under the same
\* floor; an all-static series of sufficient length gives one segment.
C7_TailClosed == [](C7_AllStatic) /\ [][C7_TailStep]_vars

\* Three or more frames, every comparison below the threshold, and the one
\* segment from the first frame to the last returned.
C7_Witness ==
    /\ StaticReturned
    /\ NFrames >= 3
    /\ \A k \in 1..(NFrames - 1) : frame_diffs[k] < threshold
    /\ segments = <<StaticSegment(FrameTs(1), FrameTs(NFrames),
                        segments[1].reason, TailConfidence)>>

(***************************************************************************)
(* C8.  A segment that starts before 30 s is PRE_ARM, also when it ends in *)
(* the last 30 s; otherwise one that ends in the last 30 s is POST_LAND;   *)
(* otherwise it is DVR_FREEZE.  No segment is SIGNAL_LOSS or UNKNOWN.      *)
(***************************************************************************)
C8_ReasonByPosition ==
    \A k \in 1..Len(segments) :
        LET g == segments[k] IN
        /\ g.start < 30 => g.reason = "PRE_ARM"
        /\ (g.start >= 30 /\ g.end > video_duration - 30) => g.reason = "POST_LAND"
        /\ (g.start >= 30 /\ g.end <= video_duration - 30) => g.reason = "DVR_FREEZE"
        /\ g.reason \notin {"SIGNAL_LOSS", "UNKNOWN"}

\* One call returns a PRE_ARM segment that also ends in the last 30 s and a
\* POST_LAND segment.
C8_Witness ==
    /\ StaticReturned
    /\ \E k \in 1..Len(segments) :
          /\ segments[k].start < 30
          /\ segments[k].end > video_duration - 30
          /\ segments[k].reason = "PRE_ARM"
    /\ \E k \in 1..Len(segments) : segments[k].reason = "POST_LAND"

(***************************************************************************)
(* C9.  Every static segment's confidence lies in [0, 1]; a segment closed *)
(* because the series ended has confidence 0.9; a segment closed by an     *)
(* exit sample has confidence 1 - d / threshold for a dissimilarity d that *)
(* its run observed below the threshold.                                   *)
(***************************************************************************)
\* The comparisons of the run the scan is in, when comparison i closes it.
RunDiffsBefore(k) ==
    {frame_diffs[j] : j \in {m \in 1..(k - 1) :
        \A n \in m..(k - 1) : frame_diffs[n] < threshold}}

C9_ConfidenceStep ==
    /\ \A k \in 1..Len(segments') :
          /\ segments'[k].confidence.den > 0
          /\ 0 <= segments'[k].confidence.num
          /\ segments'[k].confidence.num <= segments'[k].confidence.den
    /\ (StaticAtTail /\ Len(segments') > Len(segments))
          => LET c == segments'[Len(segments')].confidence
             IN 10 * c.num = 9 * c.den
    /\ (StaticAtExit /\ Len(segments') > Len(segments))
          => LET c == segments'[Len(segments')].confidence
             IN \E d \in RunDiffsBefore(i) :
                    threshold * c.num = (threshold - d) * c.den

\* C9: confidence is in [0, 1], is 0.9 for a run the series ends in, and is
\* 1 - d / threshold, d a below-threshold score of the run, at an exit.
C9_ConfidenceFromRun == [][C9_ConfidenceStep]_vars

(***************************************************************************)
(* C10.  A highlight's score is the floor of the mean of the interest      *)
(* scores of the records of its stretch.                                   *)
(***************************************************************************)
RECURSIVE ScoreTotal(_, _)
ScoreTotal(lo, hi) ==
    IF lo > hi THEN 0 ELSE RecordScore(lo) + ScoreTotal(lo + 1, hi)

\* C10: score * n <= sum of the n member scores < (score + 1) * n.
C10_FloorOfMean ==
    HighlightsCall =>
        \A k \in 1..Len(highlights) :
            LET s == LongStretch(k)
                n == s[2] - s[1] + 1
                total == ScoreTotal(s[1], s[2])
            IN /\ highlights[k].score * n <= total
               /\ total < (highlights[k].score + 1) * n

\* A highlight whose members' mean is 7.5 or more and not a whole number:
\* rounding would give 8, the score is 7.
C10_Witness ==
    /\ HighlightsReturned
    /\ Len(highlights) >= 1
    /\ LET s == LongStretch(1)
           n == s[2] - s[1] + 1
           total == ScoreTotal(s[1], s[2])
       IN /\ 2 * total >= 15 * n
          /\ total < 8 * n
          /\ highlights[1].score = 7

\* ---------------------------------------------------------------------
\* extract_tags: what is returned
\* ---------------------------------------------------------------------

TagsCall == op = "extract_tags"

TagsReturned == TagsCall /\ pc = "done"

ReturnedTags == tags[1]

Range(s) == {s[k] : k \in 1..Len(s)}

Placeholders == {"unknown", "stationary"}

\* Every tag observation of a record list, in the order of observation: a
\* record's environment tags, then its flight style unless that is empty or
\* a placeholder.
RECURSIVE ObservedTags(_)
ObservedTags(fs) ==
    IF fs = <<>> THEN <<>>
    ELSE Head(fs).environment
            \o (IF Head(fs).flight_style \in Placeholders \cup {""}
                THEN <<>> ELSE <<Head(fs).flight_style>>)
            \o ObservedTags(Tail(fs))

Tally(obs, t) == Cardinality({k \in 1..Len(obs) : obs[k] = t})

FirstSeen(obs, t) ==
    CHOOSE k \in 1..Len(obs) : obs[k] = t /\ \A j \in 1..(k - 1) : obs[j] # t

TagFloor == (NRecords * tag_threshold) \div 100

\* Occurrences of t as an environment tag, as a flight style.
EnvTally(t) ==
    Cardinality({<<k, j>> \in (1..NRecords) \X (1..3) :
                    /\ j <= Len(frame_analyses[k].environment)
                    /\ frame_analyses[k].environment[j] = t})

StyleTally(t) == Cardinality({k \in 1..NRecords : frame_analyses[k].flight_style = t})

\* C11: for a non-empty record list of length N, extract_tags returns
\* exactly the tags whose tally is at least floor(N * tag_threshold), each
\* once, by descending tally, tags of equal tally in the order of their
\* first observation.
C11_FrequentTagsInOrder ==
    (TagsReturned /\ frame_analyses # <<>>) =>
        LET obs == ObservedTags(frame_analyses)
        IN /\ Range(ReturnedTags) = {t \in Range(obs) : Tally(obs, t) >= TagFloor}
           /\ \A k, l \in 1..Len(ReturnedTags) :
                 k < l =>
                    /\ ReturnedTags[k] # ReturnedTags[l]
                    /\ Tally(obs, ReturnedTags[k]) >= Tally(obs, ReturnedTags[l])
                    /\ (Tally(obs, ReturnedTags[k]) = Tally(obs, ReturnedTags[l])
                          => FirstSeen(obs, ReturnedTags[k]) < FirstSeen(obs, ReturnedTags[l]))

\* A call where the threshold drops an observed tag and two returned tags
\* tie below a more frequent one seen after them.
C11_Witness ==
    /\ TagsReturned
    /\ TagFloor >= 2
    /\ LET obs == ObservedTags(frame_analyses)
       IN /\ \E t \in Range(obs) : t \notin Range(ReturnedTags)
          /\ \E k, l \in 1..Len(ReturnedTags) :
                /\ k < l
                /\ Tally(obs, ReturnedTags[k]) = Tally(obs, ReturnedTags[l])
          /\ \E k, l \in 1..Len(ReturnedTags) :
                /\ k < l
                /\ Tally(obs, ReturnedTags[k]) > Tally(obs, ReturnedTags[l])
                /\ FirstSeen(obs, ReturnedTags[k]) > FirstSeen(obs, ReturnedTags[l])

\* C12 as stated: a placeholder flight style is never tallied, and neither
\* "unknown" nor "stationary" is ever in the returned list.
C12_PlaceholdersNeverReturned ==
    TagsReturned =>
        \A p \in Placeholders :
            /\ p \in Range(ReturnedTags) => EnvTally(p) >= Max(1, TagFloor)
            /\ p \notin Range(ReturnedTags)

\* C12, amended: a placeholder flight style is never tallied; "unknown" or
\* "stationary" is in the returned list exactly when its occurrences as an
\* environment tag alone reach the threshold count.
C12_PlaceholdersOnlyFromEnvironment ==
    (TagsReturned /\ frame_analyses # <<>>) =>
        \A p \in Placeholders :
            p \in Range(ReturnedTags) <=> EnvTally(p) >= Max(1, TagFloor)

\* A call where "stationary" is a frequent flight style and is dropped,
\* while "unknown" is returned as a frequent environment tag.
C12_Witness ==
    /\ TagsReturned
    /\ TagFloor >= 2
    /\ StyleTally("stationary") >= TagFloor
    /\ "stationary" \notin Range(ReturnedTags)
    /\ StyleTally("unknown") >= 1
    /\ "unknown" \in Range(ReturnedTags)

\* ---------------------------------------------------------------------
\* assess_quality: what is returned
\* ---------------------------------------------------------------------

QualityCall == op = "assess_quality"

QualityReturned == QualityCall /\ pc = "done"

Returned == quality[1]

\* The issue strings of record k, of all records.
IssuesOf(k) == Range(frame_analyses[k].quality_issues)

ReportedIssues == UNION {IssuesOf(k) : k \in 1..NRecords}

\* Occurrences of an issue string over all records.
IssueTally(issue) ==
    Cardinality({<<k, j>> \in (1..NRecords) \X (1..2) :
                    /\ j <= Len(frame_analyses[k].quality_issues)
                    /\ frame_analyses[k].quality_issues[j] = issue})

SignificanceFloor == Max(1, (NRecords * 10) \div 100)

Significant == {issue \in ReportedIssues : IssueTally(issue) >= SignificanceFloor}

\* Case-insensitive substring.
Has(word, issue) == Contains(word, Lower(issue))

IsBlur(issue) == Has(Word_blur, issue)

IsArtifact(issue) == Has(Word_artifact, issue) \/ Has(Word_dvr, issue)

IsSignalLoss(issue) == Has(Word_signal, issue) \/ Has(Word_loss, issue)

IsWeather(issue) == Has(Word_fog, issue) \/ Has(Word_weather, issue)

\* The deduction of the first category that matches.
CategoryDeduction(issue) ==
    CASE IsBlur(issue) -> 2
      [] ~IsBlur(issue) /\ IsArtifact(issue) -> 3
      [] ~IsBlur(issue) /\ ~IsArtifact(issue) /\ IsSignalLoss(issue) -> 4
      [] ~IsBlur(issue) /\ ~IsArtifact(issue) /\ ~IsSignalLoss(issue)
            /\ IsWeather(issue) -> 1
      [] OTHER -> 0

RECURSIVE TotalDeduction(_)
TotalDeduction(issues) ==
    IF issues = {} THEN 0
    ELSE LET x == CHOOSE y \in issues : TRUE
         IN CategoryDeduction(x) + TotalDeduction(issues \ {x})

Clamp(x, lo, hi) == IF x < lo THEN lo ELSE IF x > hi THEN hi ELSE x

\* C13: for a non-empty record list, overall_score is 10 less one deduction
\* per significant issue, clamped into 1..10: the deduction of the first
\* category the issue matches (blur 2, artifact or dvr 3, signal or loss 4,
\* fog or weather 1, none 0); "dvr-artifact-heavy" alone scores 7.
C13_ScoreFromDeductions ==
    (QualityReturned /\ frame_analyses # <<>>) =>
        /\ Returned.overall_score = Clamp(10 - TotalDeduction(Significant), 1, 10)
        /\ Returned.overall_score \in 1..10
        /\ (Significant = {Issue_dvr_artifact_heavy} => Returned.overall_score = 7)

\* A call whose deductions reach 10, one of them for an issue that matches
\* two categories.
C13_Witness ==
    /\ QualityReturned
    /\ 10 - TotalDeduction(Significant) < 1
    /\ Returned.overall_score = 1
    /\ \E issue \in Significant : IsBlur(issue) /\ IsArtifact(issue)

RECURSIVE MatchingRecords(_)
MatchingRecords(k) ==
    IF k > NRecords THEN <<>>
    ELSE (IF \E issue \in IssuesOf(k) : IsSignalLoss(issue) THEN <<k>> ELSE <<>>)
            \o MatchingRecords(k + 1)

\* C15: one signal-loss interval from ts to ts + 1 for each record with a
\* matching issue, as many intervals as matching records, in record order.
C15_OneIntervalPerMatchingRecord ==
    QualityReturned =>
        LET matching == MatchingRecords(1)
        IN Returned.signal_loss_segments =
              [n \in 1..Len(matching) |->
                  [start |-> RecordTs(matching[n]),
                   end |-> RecordTs(matching[n]) + 1]]

\* C16: for a non-empty record list, dvr_artifacts_detected is true exactly
\* when some record reports an issue containing "dvr" or "artifact" in any
\* case, significant or not.
C16_DvrFlagFromAnyIssue ==
    (QualityReturned /\ frame_analyses # <<>>) =>
        (Returned.dvr_artifacts_detected
            <=> \E issue \in ReportedIssues : IsArtifact(issue))

\* A call where the only matching issue is in upper case and not significant.
C16_Witness ==
    /\ QualityReturned
    /\ Returned.dvr_artifacts_detected
    /\ \E issue \in ReportedIssues : IsArtifact(issue) /\ issue # Lower(issue)
    /\ \A issue \in Range(Returned.issues) : ~IsArtifact(issue)

\* ---------------------------------------------------------------------
\* detect_highlights: tags and description of a highlight
\* ---------------------------------------------------------------------

\* The records of the k-th long stretch: the members of highlights[k].
Members(k) == SubSeq(frame_analyses, LongStretch(k)[1], LongStretch(k)[2])

\* t comes before u in a tally over obs: more frequent, or as frequent and
\* seen first.
RanksBefore(obs, t, u) ==
    \/ Tally(obs, t) > Tally(obs, u)
    \/ /\ Tally(obs, t) = Tally(obs, u)
       /\ FirstSeen(obs, t) < FirstSeen(obs, u)

\* C17: a highlight's tags are the five most frequent values, or all if
\* there are fewer, of a tally over its member records alone (environment
\* tags, and flight styles other than "", "unknown" and "stationary"), most
\* frequent first, values of equal tally in the order first seen.
C17_TopFiveMemberTags ==
    HighlightsCall =>
        \A k \in 1..Len(highlights) :
            LET obs == ObservedTags(Members(k))
                top == highlights[k].tags
            IN /\ Range(top) \subseteq Range(obs)
               /\ Len(top) = Min(5, Cardinality(Range(obs)))
               /\ \A m, n \in 1..Len(top) :
                     m < n => RanksBefore(obs, top[m], top[n])
               /\ \A t \in Range(obs) \ Range(top) :
                     \A m \in 1..Len(top) : RanksBefore(obs, top[m], t)

\* A highlight whose members carry more than five values, a placeholder
\* flight style among them, the cut falling between two values of equal
\* tally, next to a record outside the highlight with a tag of its own.
C17_Witness ==
    /\ HighlightsReturned
    /\ Len(highlights) >= 1
    /\ LET obs == ObservedTags(Members(1))
           top == highlights[1].tags
       IN /\ Cardinality(Range(obs)) > 5
          /\ Len(top) = 5
          /\ \E t \in Range(obs) \ Range(top) : Tally(obs, t) = Tally(obs, top[5])
          /\ \E m \in 1..Len(Members(1)) : Members(1)[m].flight_style = "stationary"
          /\ "stationary" \notin Range(top)
          /\ \E j \in 1..NRecords :
                /\ frame_analyses[j].environment # <<>>
                /\ frame_analyses[j].environment[1] \notin Range(obs)

\* C18: a highlight's description is that of its member with the highest
\* interest_score, the earliest such member if several share it.
C18_DescriptionOfBestMember ==
    HighlightsCall =>
        \A k \in 1..Len(highlights) :
            LET s == LongStretch(k)
                best == CHOOSE j \in s[1]..s[2] :
                            /\ \A m \in s[1]..s[2] : RecordScore(m) <= RecordScore(j)
                            /\ \A m \in s[1]..(j - 1) : RecordScore(m) < RecordScore(j)
            IN highlights[k].description = frame_analyses[best].description

\* A highlight whose highest score is shared by two members, neither the
\* first member.
C18_Witness ==
    /\ HighlightsReturned
    /\ Len(highlights) >= 1
    /\ LET s == LongStretch(1)
       IN /\ \E j, m \in (s[1] + 1)..s[2] :
                /\ j < m
                /\ RecordScore(j) = RecordScore(m)
                /\ \A n \in s[1]..s[2] : RecordScore(n) <= RecordScore(j)
                /\ RecordScore(s[1]) < RecordScore(j)
                /\ highlights[1].description = frame_analyses[j].description

\* ---------------------------------------------------------------------
\* Empty and single-sample input
\* ---------------------------------------------------------------------

\* C19: on an empty record list extract_tags returns the empty list,
\* detect_highlights returns the empty list and assess_quality returns the
\* default assessment (score 5, no issues, no artifacts, no intervals); each
\* call comes to its return.
C19_EmptyInput ==
    frame_analyses = <<>> =>
        /\ pc # "done" => ENABLED AggregatorNext
        /\ (pc = "done" /\ op = "extract_tags") => tags = Some(<<>>)
        /\ (pc = "done" /\ op = "detect_highlights") => highlights = <<>>
        /\ (pc = "done" /\ op = "assess_quality") =>
              /\ quality # None
              /\ Returned.overall_score = 5
              /\ Returned.issues = <<>>
              /\ Returned.dvr_artifacts_detected = FALSE
              /\ Returned.signal_loss_segments = <<>>

\* assess_quality has returned from a call without records.
C19_Witness ==
    /\ QualityReturned
    /\ frame_analyses = <<>>
    /\ quality # None
    /\ Returned.overall_score = 5

\* C20: with fewer than two samples there are no runs: no static segment
\* for 0 or 1 frames, no highlight for 0 or 1 records.
C20_NoRunsBelowTwoSamples ==
    /\ (StaticReturned /\ NFrames < 2) => segments = <<>>
    /\ (HighlightsReturned /\ NRecords < 2) => highlights = <<>>

\* ---------------------------------------------------------------------
\* Stage 5: the three methods are pure
\* ---------------------------------------------------------------------

\* What the method that returns in this step returns.
ResultAfter(m) ==
    CASE m = "extract_tags" -> tags'[1]
      [] m = "detect_highlights" -> highlights'
      [] m = "assess_quality" -> quality'[1]

Returns == pc # "done" /\ pc' = "done"

\* No step changes the records or a threshold, and a method that returns
\* on a later call returns what it returned before; the tags are those of
\* the tally of this call alone.
C21_Step ==
    /\ frame_analyses' = frame_analyses
    /\ tag_threshold' = tag_threshold
    /\ highlight_score_threshold' = highlight_score_threshold
    /\ highlight_min_duration' = highlight_min_duration
    /\ (Returns /\ previous[op] # None) => ResultAfter(op) = previous[op][1]
    /\ (Returns /\ op = "extract_tags") =>
          LET obs == ObservedTags(frame_analyses)
          IN \A t \in Range(tags'[1]) : Tally(obs, t) >= TagFloor

\* C21: extract_tags, detect_highlights and assess_quality leave the
\* records and the thresholds as they are, each returns the same result
\* when called again on the same records, whatever was called in between.
C21_PureMethods == [][C21_Step]_vars

\* All three methods have been called, and the first of them has returned
\* a second time: tags that the threshold has thinned out.
C21_Witness ==
    /\ pc = "done"
    /\ op = "extract_tags"
    /\ \A m \in Methods : previous[m] # None
    /\ tags[1] # <<>>
    /\ \E t \in Range(ObservedTags(frame_analyses)) : t \notin Range(tags[1])
    /\ previous["detect_highlights"][1] # <<>>
    /\ previous["assess_quality"][1].issues # <<>>

\* ---------------------------------------------------------------------
\* Timestamps out of order
\* ---------------------------------------------------------------------

OutOfOrder(ts) == \E k \in 1..(Len(ts) - 1) : ts[k] > ts[k + 1]

FrameTimestamps == [k \in 1..NFrames |-> FrameTs(k)]

RecordTimestamps == [k \in 1..NRecords |-> RecordTs(k)]

\* C22: a frame or record list whose timestamps are not non-decreasing is
\* turned away at entry: the scan does not start and nothing is returned.
C22_OutOfOrderRejected ==
    /\ (StaticCall /\ OutOfOrder(FrameTimestamps)) =>
          (pc = "static_entry" /\ segments = <<>>)
    /\ (HighlightsCall /\ OutOfOrder(RecordTimestamps)) =>
          (pc = "highlights_entry" /\ highlights = <<>>)

\* ---------------------------------------------------------------------
\* _analyze_frames: one record per frame
\* ---------------------------------------------------------------------

AnalyzeCall == op = "_analyze_frames"

AnalyzeReturned == AnalyzeCall /\ pc = "done"

\* C23: whatever frames the classifier fails on, _analyze_frames returns
\* one record per frame, in frame order, record k with the timestamp of
\* frame k; after a failure the remaining frames are still analysed.
C23_OneRecordPerFrame ==
    AnalyzeCall =>
        /\ pc = "analyze_loop" => NRecords = i
        /\ pc = "done" => NRecords = NFrames
        /\ \A k \in 1..NRecords : RecordTs(k) = FrameTs(k)
        /\ \A k \in 1..NRecords :
              (k - 1) \in failed <=> frame_analyses[k].description # "answer"
        /\ pc # "done" => ENABLED AnalyzeNext

\* A call over three frames: an exception came out of analyze_frame on the
\* first, the second was answered, one was caught inside on the third.
C23_Witness ==
    /\ AnalyzeReturned
    /\ NFrames = 3
    /\ failed = {0, 2}
    /\ frame_analyses[1].description = "Analysis failed"
    /\ frame_analyses[2].description = "answer"
    /\ frame_analyses[3].description = "Error analyzing frame"

\* C24: the record of a frame the classifier failed on has interest score
\* 5, no environment tag and no quality issue.
C24_FailedFrameNeutral ==
    AnalyzeCall =>
        \A k \in 1..NRecords :
            (k - 1) \in failed =>
                /\ frame_analyses[k].interest_score = 5
                /\ frame_analyses[k].environment = <<>>
                /\ frame_analyses[k].quality_issues = <<>>

\* ---------------------------------------------------------------------
\* detect_static_segments: the two confidence values
\* ---------------------------------------------------------------------

IsZero(confidence) == confidence.num = 0 /\ confidence.den # 0

IsNineTenths(confidence) == confidence.num * 10 = 9 * confidence.den /\ confidence.den # 0

C25_Step ==
    /\ (StaticCall /\ pc = "static_loop" /\ Len(segments') = Len(segments) + 1 /\ i < NFrames)
          => IsZero(segments'[Len(segments')].confidence)
    /\ StaticCall' =>
          \A k \in 1..Len(segments') :
              IsZero(segments'[k].confidence) \/ IsNineTenths(segments'[k].confidence)

ScoresInRange == \A k \in 1..NRecords : RecordScore(k) \in 1..10

\* C26: with every interest score in 1..10, each highlight's score is at
\* least the score threshold and at most 10, hence within Highlight's 1..10.
C26_HighlightScoreInRange ==
    (HighlightsCall /\ ScoresInRange) =>
        \A k \in 1..Len(highlights) :
            /\ highlight_score_threshold <= highlights[k].score
            /\ highlights[k].score <= 10
            /\ highlights[k].score \in 1..10

\* A returned highlight whose floored mean equals the threshold although
\* one of its members scored 10.
C26_Witness ==
    /\ HighlightsReturned
    /\ ScoresInRange
    /\ Len(highlights) >= 1
    /\ highlights[1].score = highlight_score_threshold
    /\ \E m \in 1..Len(Members(1)) : Members(1)[m].interest_score = 10

\* ---------------------------------------------------------------------
\* analyze_video: the sidecar
\* ---------------------------------------------------------------------

PipelineCall == op = "analyze_video"

Wrote(p) == "write" \in Range(ran[p])

\* Request p writes the sidecar in this step.
Writes(p) == ~Wrote(p) /\ Wrote(p)'

C27_Step ==
    PipelineCall =>
        \A p \in Requests :
            /\ (ppc[p] = "entry" /\ ppc'[p] # "entry" /\ ~force[p] /\ sidecar # None)
                  => (ppc'[p] \in {"FileExistsError", "FileNotFoundError"} /\ ran'[p] = <<>>)
            /\ (Writes(p) /\ ~force[p]) => sidecar = None

\* C27: a request without force never overwrites a sidecar: when one
\* exists at entry it raises FileExistsError before any stage, and of
\* concurrent requests without force only one writes.
C27_NeverOverwrittenWithoutForce == [][C27_Step]_vars

C28_Step ==
    PipelineCall =>
        \A p \in Requests :
            /\ Writes(p) => ran[p] = SubSeq(Stages, 1, Len(Stages) - 1)
            /\ Wrote(p) => ran'[p] = ran[p]
            /\ ~Writes(p) => (sidecar' = sidecar \/ \E q \in Requests \ {p} : Writes(q))
            /\ (ppc[p] = "finally_raise" /\ ppc'[p] # ppc[p]) => ppc'[p] = "raised"
            /\ ppc'[p] = "finally_raise" => ~Wrote(p)'
            /\ ppc'[p] \in Terminated => temp_dir'[p] \in {"None", "removed"}
            /\ (temp_dir[p] = "created" /\ ppc'[p] \notin Terminated) => temp_dir'[p] = "created"

\* C28: a request writes the sidecar only after its probe, extraction,
\* static detection, frame analysis, aggregation and summary, and runs
\* nothing after; a request in which a stage raised has not written, the
\* exception propagates, and its temporary directory, once created, is
\* gone when it ends.
C28_WriteLastCleanupAlways == [][C28_Step]_vars

\* One request has returned after writing, the other ended with the
\* exception of a stage after its temporary directory was created; both
\* directories are removed and the sidecar is the first request's.
C28_Witness ==
    /\ PipelineCall
    /\ \E p, q \in Requests :
          /\ ppc[p] = "returned"
          /\ ran[p] = Stages
          /\ temp_dir[p] = "removed"
          /\ sidecar = Some(p)
          /\ ppc[q] = "raised"
          /\ Len(ran[q]) >= 2
          /\ temp_dir[q] = "removed"

\* ---------------------------------------------------------------------
\* The constructors: an explicit 0
\* ---------------------------------------------------------------------

Constructed == op \in {"StaticDetector", "Aggregator"} /\ pc = "done"

\* The attribute the constructor stored for a parameter.
Attribute(parameter) ==
    CASE parameter = "threshold" -> threshold
      [] parameter = "min_duration" -> min_duration
      [] parameter = "tag_threshold" -> tag_threshold
      [] parameter = "highlight_score_threshold" -> highlight_score_threshold
      [] parameter = "highlight_min_duration" -> highlight_min_duration

ZeroReplaced ==
    \A x \in Parameters(op) :
        /\ args.given[x] \in {None, Some(0)} => Attribute(x) = args.settings[x]
        /\ args.given[x] \notin {None, Some(0)} => Attribute(x) = args.given[x][1]

\* C29 as stated: an explicit 0 is replaced by the configured default and
\* any other explicit value is used as given, so that no minimum duration
\* and no tag threshold in effect is 0.
C29_ZeroNeverInEffect ==
    Constructed =>
        /\ ZeroReplaced
        /\ \A x \in Parameters(op) \cap {"min_duration", "highlight_min_duration", "tag_threshold"} :
              Attribute(x) # 0

\* C29: an explicit 0 is replaced by the configured default and any other
\* explicit value is used as given; a value in effect is 0 exactly when
\* the configured default is 0 and the argument is absent or 0.
C29_ZeroOnlyFromSettings ==
    Constructed =>
        /\ ZeroReplaced
        /\ \A x \in Parameters(op) :
              Attribute(x) = 0 <=>
                  (args.settings[x] = 0 /\ args.given[x] \in {None, Some(0)})

\* An Aggregator built with tag_threshold=0 and highlight_min_duration=0
\* under settings whose tag threshold is the shipped 0.2 and whose minimum
\* highlight duration is 0, and with a score threshold of its own.
C29_Witness ==
    /\ Constructed
    /\ op = "Aggregator"
    /\ args.given["tag_threshold"] = Some(0)
    /\ args.settings["tag_threshold"] = tag_frequency_threshold
    /\ tag_threshold = tag_frequency_threshold
    /\ args.given["highlight_min_duration"] = Some(0)
    /\ args.settings["highlight_min_duration"] = 0
    /\ highlight_min_duration = 0
    /\ args.given["highlight_score_threshold"] = Some(8)
    /\ highlight_score_threshold = 8

====
